---------------------------- MODULE Spec2Model ----------------------------
(***************************************************************************)
(* Template service (template_app): the version lifecycle of templates.   *)
(*                                                                         *)
(* The store is the Template table (models.py).  The handlers of views.py *)
(* run as concurrent requests; every ORM call is one statement committed  *)
(* on its own (views.py opens no transaction), so a handler is a sequence *)
(* of steps, one per statement, and requests interleave between them.     *)
(***************************************************************************)
EXTENDS Integers, Sequences, FiniteSets, TLC

(***************************************************************************)
(* Bounds of the model.                                                    *)
(***************************************************************************)
\* Rows ever inserted (the supply of primary keys).
MaxIds == 2

\* Creates of a run in which requests are served one at a time.
MaxCreates == 4

\* Rows ever inserted in a run of creates, direct updates and deletes served
\* one at a time.
MaxApiIds == 3

\* Requests that may run concurrently: two creates and one direct update.
Creators == {"c1", "c2"}
Editors == {"e1"}
Procs == Creators \cup Editors

Codes == {"welcome", "signup"}
Languages == {"en", "pt"}

(***************************************************************************)
(* Template content, as the token stream Django's parser sees: text,      *)
(* a variable, an opening block tag, a closing block tag.                  *)
(***************************************************************************)
GoodContent == <<"text", "var">>
BadContent == <<"for", "var">>
Contents == {GoodContent, BadContent}

\* The subject is a template text of the same syntax ("Welcome {{name}}!").
GoodSubject == <<"text", "var">>
BadSubject == <<"for", "var">>
Subjects == {GoodSubject, BadSubject}

\* A key the request body or the query string does not have.
Omitted == "omitted"

\* The variables of a render request: none, or a value for the placeholder.
NoVariables == "none"
WithVariables == "value"
Variables == {NoVariables, WithVariables}

NoRow == [id |-> 0]
NoReq == [op |-> "none"]
NoData == <<>>
NoResp == [op |-> "none", status |-> 0, error |-> "none", attempts |-> 0,
           actives |-> 0, window |-> FALSE, data |-> NoData, request |-> NoReq]

VARIABLES
    templates,   \* the Template table: a set of rows
    next_id,     \* primary keys handed out so far + 1 (uuid4 never repeats)
    pc,          \* per worker: where its request stands
    req,         \* per worker: the validated data of its request
    local,       \* per worker: the handler's local variables
    resp,        \* the last response sent
    alone,       \* per create: no other request touched its group so far
    assigned     \* history: per group, the highest version a create was given

vars == <<templates, next_id, pc, req, local, resp, alone, assigned>>

(***************************************************************************)
(* models.py: the table and its constraint.                                *)
(***************************************************************************)
Template(id, code, language, version, is_active, content, subject) ==
    [id |-> id, code |-> code, language |-> language, version |-> version,
     is_active |-> is_active, content |-> content, subject |-> subject]

\* Meta.unique_together = ('code', 'language', 'version'), and the primary key.
UniqueTogether(rs) ==
    \A r, s \in rs :
        ((r.code = s.code /\ r.language = s.language /\ r.version = s.version)
            \/ r.id = s.id) => r = s

\* Template.objects.filter(code=code, language=language)
Filter(rs, code, language) ==
    {r \in rs : r.code = code /\ r.language = language}

\* The table without its constraint.
InsertUnchecked(rs, row) == TRUE

\* INSERT: the store rejects a row that breaks the constraint (IntegrityError).
InsertOk(rs, row) == UniqueTogether(rs \cup {row})

Insert(rs, row) == IF InsertOk(rs, row) THEN rs \cup {row} ELSE rs

(***************************************************************************)
(* serializers.py: validate_content.  DjangoTemplate(value) parses the     *)
(* content and raises TemplateSyntaxError on a block tag left open or a    *)
(* closing tag with no opening one.                                        *)
(***************************************************************************)
RECURSIVE Depth(_, _)
Depth(tokens, d) ==
    IF d < 0 THEN -1
    ELSE IF tokens = <<>> THEN d
    ELSE LET t == Head(tokens)
         IN  Depth(Tail(tokens),
                   IF t = "for" THEN d + 1
                   ELSE IF t = "endfor" THEN d - 1
                   ELSE d)

\* A validator that accepts whatever it is given.
validate_nothing(value) == TRUE

validate_content(value) == Depth(value, 0) = 0

(***************************************************************************)
(* views.py: perform_create, statement by statement.                       *)
(***************************************************************************)
\* The same query ordered by 'version': the oldest row, not the newest.
LatestAscending(rs, code, language) ==
    LET g == Filter(rs, code, language)
    IN  IF g = {} THEN NoRow
        ELSE CHOOSE r \in g : \A s \in g : r.version <= s.version

\* line 90: .order_by('-version').first()
Latest(rs, code, language) ==
    LET g == Filter(rs, code, language)
    IN  IF g = {} THEN NoRow
        ELSE CHOOSE r \in g : \A s \in g : s.version <= r.version

\* line 91
NextVersion(latest) == IF latest # NoRow THEN latest.version + 1 ELSE 1

\* The default of the other language.
get_language_pt(data) == IF data.language = Omitted THEN "pt" ELSE data.language

\* line 88: serializer.validated_data.get("language", "en")
get_language(data) == IF data.language = Omitted THEN "en" ELSE data.language

\* line 93: serializer.save(version=next_version).  The id, version and
\* is_active of the body are read-only fields and never reach the row;
\* is_active and an omitted language take the defaults of models.py.
NewRow(id, data, version) ==
    Template(id, data.code,
             IF data.language = Omitted THEN "en" ELSE data.language,
             version, TRUE, data.content, data.subject)

\* The UPDATE without its exclude(): the new row is deactivated too.
DeactivateAll(rs, code, language, version) ==
    {IF r.code = code /\ r.language = language
        THEN [r EXCEPT !.is_active = FALSE]
        ELSE r : r \in rs}

\* The UPDATE filtered by code alone: every language of the code is hit.
DeactivateAnyLanguage(rs, code, language, version) ==
    {IF r.code = code /\ r.version # version
        THEN [r EXCEPT !.is_active = FALSE]
        ELSE r : r \in rs}

\* lines 94-96: filter(code, language).exclude(version=next_version).update(is_active=False)
DeactivateOthers(rs, code, language, version) ==
    {IF r.code = code /\ r.language = language /\ r.version # version
        THEN [r EXCEPT !.is_active = FALSE]
        ELSE r : r \in rs}

(***************************************************************************)
(* Bookkeeping on the requests in flight.                                  *)
(***************************************************************************)
Group(code, language) == <<code, language>>

\* The groups a request in flight reads or writes: a create its own, an
\* update the one it moves the row to and the one the row is in.
Touches(p) ==
    IF pc[p] = "idle" THEN {}
    ELSE IF req[p].op = "create" THEN {Group(req[p].code, req[p].language)}
    ELSE {Group(r.code, r.language) :
            r \in {local[p]} \cup {s \in templates : s.id = local[p].id}}

\* A step of worker p on the groups gs ends the solitude of every other
\* request in flight on one of them.
Disturb(p, gs) ==
    [q \in Creators |-> alone[q] /\ (q = p \/ Touches(q) \cap gs = {})]

Actives(rs) == {r \in rs : r.is_active}

\* The history after a create of group g was given the version v.
Assign(history, g, v) ==
    [history EXCEPT ![g] = IF v > history[g] THEN v ELSE history[g]]

Init ==
    /\ templates = {}
    /\ next_id = 1
    /\ pc = [p \in Procs |-> "idle"]
    /\ req = [p \in Procs |-> NoReq]
    /\ local = [p \in Procs |-> NoRow]
    /\ resp = NoResp
    /\ alone = [p \in Creators |-> TRUE]
    /\ assigned = [g \in Codes \X Languages |-> 0]

(***************************************************************************)
(* Responses, as far as the claims read them.  A response is kept with    *)
(* the keys of its request where a handler runs as one step.               *)
(***************************************************************************)
Response(op, status, error, attempts) ==
    [op |-> op, status |-> status, error |-> error, attempts |-> attempts,
     actives |-> 0, window |-> FALSE, data |-> NoData, request |-> NoReq]

\* Requests of workers now between their first and their last statement.
InFlightInserts == Cardinality({q \in Procs : pc[q] = "read"})

(***************************************************************************)
(* POST /api/v1/templates/ : TemplateListCreateView.create                 *)
(***************************************************************************)
\* lines 75-76 and 87-91: validation, then the read of the latest version.
Create(p, data) ==
    /\ pc[p] = "idle"
    /\ IF ~validate_content(data.content)
       THEN /\ resp' = Response("create", 400, "validation", 0)
            /\ UNCHANGED <<templates, next_id, pc, req, local, alone, assigned>>
       ELSE LET language == get_language(data)
                latest == Latest(templates, data.code, language)
                g == Group(data.code, language)
            IN  /\ next_id + InFlightInserts <= MaxIds
                /\ pc' = [pc EXCEPT ![p] = "read"]
                /\ req' = [req EXCEPT ![p] =
                        [op |-> "create", code |-> data.code,
                         language |-> language, content |-> data.content,
                         subject |-> data.subject]]
                /\ local' = [local EXCEPT ![p] =
                        [next_version |-> NextVersion(latest),
                         had_active |->
                            Actives(Filter(templates, data.code, language)) # {},
                         attempts |-> 0]]
                /\ alone' = [Disturb(p, {g}) EXCEPT ![p] =
                        \A q \in Procs \ {p} : g \notin Touches(q)]
                /\ UNCHANGED <<templates, next_id, resp, assigned>>

\* line 93: the INSERT.  An IntegrityError is caught nowhere: the request
\* ends with a server error after this one attempt.
PerformCreateSave(p) ==
    /\ pc[p] = "read"
    /\ LET row == NewRow(next_id, req[p], local[p].next_version)
           g == Group(req[p].code, req[p].language)
       IN  IF InsertOk(templates, row)
           THEN /\ templates' = Insert(templates, row)
                /\ next_id' = next_id + 1
                /\ pc' = [pc EXCEPT ![p] = "saved"]
                /\ local' = [local EXCEPT ![p] =
                        [next_version |-> local[p].next_version,
                         had_active |-> local[p].had_active,
                         attempts |-> local[p].attempts + 1,
                         id |-> row.id]]
                /\ alone' = Disturb(p, {g})
                /\ assigned' = Assign(assigned, g, row.version)
                /\ UNCHANGED <<req, resp>>
           ELSE /\ resp' = Response("create", 500, "integrity", local[p].attempts + 1)
                /\ pc' = [pc EXCEPT ![p] = "idle"]
                /\ req' = [req EXCEPT ![p] = NoReq]
                /\ local' = [local EXCEPT ![p] = NoRow]
                /\ alone' = [alone EXCEPT ![p] = TRUE]
                /\ UNCHANGED <<templates, next_id, assigned>>

\* lines 94-96: the UPDATE of the other rows, then the 201 of lines 78-83.
PerformCreateDeactivate(p) ==
    /\ pc[p] = "saved"
    /\ templates' = DeactivateOthers(templates, req[p].code, req[p].language,
                                     local[p].next_version)
    /\ resp' = Response("create", 201, "none", local[p].attempts)
    /\ pc' = [pc EXCEPT ![p] = "idle"]
    /\ req' = [req EXCEPT ![p] = NoReq]
    /\ local' = [local EXCEPT ![p] = NoRow]
    /\ alone' = [Disturb(p, {Group(req[p].code, req[p].language)})
                    EXCEPT ![p] = TRUE]
    /\ UNCHANGED <<next_id, assigned>>

\* lines 94-96 raising instead (the store drops the connection, times out a
\* lock): the INSERT of line 93 is already committed and nothing undoes it.
PerformCreateFault(p) ==
    /\ pc[p] = "saved"
    /\ resp' = Response("create", 500, "fault", local[p].attempts)
    /\ pc' = [pc EXCEPT ![p] = "idle"]
    /\ req' = [req EXCEPT ![p] = NoReq]
    /\ local' = [local EXCEPT ![p] = NoRow]
    /\ alone' = [alone EXCEPT ![p] = TRUE]
    /\ UNCHANGED <<templates, next_id, assigned>>

(***************************************************************************)
(* PATCH/PUT /api/v1/templates/<pk>/ : TemplateDetailView.update           *)
(***************************************************************************)
Row(rs, pk) == CHOOSE r \in rs : r.id = pk

\* The serializer with 'version' and 'is_active' writable: the instance takes
\* what the body gives for them.
SavedTrusting(instance, data) ==
    [instance EXCEPT !.code = data.code,
                     !.language = IF data.language = Omitted
                                  THEN instance.language ELSE data.language,
                     !.content = data.content,
                     !.subject = data.subject,
                     !.version = IF data.versioning.given
                                 THEN data.versioning.version ELSE instance.version,
                     !.is_active = IF data.versioning.given
                                   THEN data.versioning.is_active
                                   ELSE instance.is_active]

\* serializer.save() -> ModelSerializer.update(): the validated fields are
\* set on the instance get_object() read; id, version and is_active are
\* read-only fields, so the body cannot set them and they stay as read.
Saved(instance, data) ==
    [instance EXCEPT !.code = data.code,
                     !.language = IF data.language = Omitted
                                  THEN instance.language ELSE data.language,
                     !.content = data.content,
                     !.subject = data.subject]

\* lines 116-118: get_object() reads the row, is_valid() checks the body.
\* local[p] is the instance as perform_update will write it.
Update(p, pk, data) ==
    /\ pc[p] = "idle"
    /\ \E r \in templates : r.id = pk
    /\ IF ~validate_content(data.content)
       THEN /\ resp' = Response("update", 400, "validation", 0)
            /\ UNCHANGED <<templates, next_id, pc, req, local, alone, assigned>>
       ELSE LET instance == Row(templates, pk)
                saved == Saved(instance, data)
                gs == {Group(saved.code, saved.language),
                       Group(instance.code, instance.language)}
            IN  /\ pc' = [pc EXCEPT ![p] = "got"]
                /\ req' = [req EXCEPT ![p] = [op |-> "update"]]
                /\ local' = [local EXCEPT ![p] = saved]
                /\ alone' = Disturb(p, gs)
                /\ UNCHANGED <<templates, next_id, resp, assigned>>

\* line 119: perform_update -> instance.save().  Model.save() writes every
\* column of the instance: UPDATE ... WHERE id = pk and, when that matches
\* no row (the row was deleted meanwhile), INSERT.
PerformUpdate(p) ==
    /\ pc[p] = "got"
    /\ LET row == local[p]
           others == {r \in templates : r.id # row.id}
       IN  /\ IF InsertOk(others, row)
              THEN /\ templates' = Insert(others, row)
                   /\ resp' = Response("update", 200, "none", 1)
              ELSE /\ resp' = Response("update", 500, "integrity", 1)
                   /\ UNCHANGED templates
           /\ alone' = Disturb(p, Touches(p))
    /\ pc' = [pc EXCEPT ![p] = "idle"]
    /\ req' = [req EXCEPT ![p] = NoReq]
    /\ local' = [local EXCEPT ![p] = NoRow]
    /\ UNCHANGED <<next_id, assigned>>

(***************************************************************************)
(* DELETE /api/v1/templates/<pk>/ : TemplateDetailView.destroy             *)
(***************************************************************************)
\* lines 127-128: get_object(), then DELETE ... WHERE id = pk.
Destroy(pk) ==
    /\ \E r \in templates : r.id = pk
    /\ LET instance == Row(templates, pk)
       IN  /\ templates' = templates \ {instance}
           /\ alone' = [q \in Creators |-> alone[q] /\
                        Group(instance.code, instance.language) \notin Touches(q)]
    /\ resp' = Response("destroy", 204, "none", 0)
    /\ UNCHANGED <<next_id, pc, req, local, assigned>>

(***************************************************************************)
(* GET /api/v1/templates/<code>/versions/ : TemplateVersionListView        *)
(***************************************************************************)
\* line 142: filter(code, language).order_by('-version')
RECURSIVE OrderByVersionDesc(_)
OrderByVersionDesc(rs) ==
    IF rs = {} THEN <<>>
    ELSE LET top == CHOOSE r \in rs : \A s \in rs : s.version <= r.version
         IN  <<top>> \o OrderByVersionDesc(rs \ {top})

\* The query in the table's own order (by primary key), not by version.
get_queryset_unordered(code, language) ==
    LET g == Filter(templates, code,
                    IF language = Omitted THEN "en" ELSE language)
        ids == {r.id : r \in g}
        Nth(i) == CHOOSE r \in g :
                    Cardinality({j \in ids : j <= r.id}) = i
    IN  [i \in 1..Cardinality(g) |-> Nth(i)]

\* lines 140-142: query_params.get('language', 'en'), then the query.
get_queryset(code, language) ==
    OrderByVersionDesc(Filter(templates, code,
                              IF language = Omitted THEN "en" ELSE language))

\* A create of the group stands between its INSERT and its UPDATE, and the
\* group had an active row when the create read it.
InWindow(code, language) ==
    \E p \in Procs :
        /\ pc[p] = "saved"
        /\ req[p].code = code /\ req[p].language = language
        /\ local[p].had_active

\* lines 144-164: the listing a client receives (no page size is configured
\* in views.py, so the whole queryset is serialized), with what it shows of
\* the group's active rows.
VersionList(code, language) ==
    /\ LET data == get_queryset(code, language)
       IN  resp' =
            [Response("versions", 200, "none", 0) EXCEPT
                !.actives = Cardinality({i \in DOMAIN data : data[i].is_active}),
                !.window = InWindow(code, IF language = Omitted
                                          THEN "en" ELSE language),
                !.data = data,
                !.request = [code |-> code, language |-> language]]
    /\ UNCHANGED <<templates, next_id, pc, req, local, alone, assigned>>

(***************************************************************************)
(* POST /api/v1/templates/render/ : RenderTemplateView.post                *)
(***************************************************************************)
\* A handler that goes on to the query whatever the code is.
MissingCodeNever(code) == FALSE

\* line 173: if not code
MissingCode(code) == code = Omitted

\* The query without is_active=True: the latest row of the group.
ActiveLatestAnyRow(rs, code, language) == Latest(rs, code, language)

\* The query ended by .earliest("version").
ActiveEarliest(rs, code, language) ==
    LET g == Actives(Filter(rs, code, language))
    IN  IF g = {} THEN NoRow
        ELSE CHOOSE r \in g : \A s \in g : r.version <= s.version

\* lines 180-184: filter(code, language, is_active=True).latest("version");
\* NoRow stands for Template.DoesNotExist.
ActiveLatest(rs, code, language) ==
    LET g == Actives(Filter(rs, code, language))
    IN  IF g = {} THEN NoRow
        ELSE CHOOSE r \in g : \A s \in g : s.version <= r.version

\* line 193: django_template.render(Context(variables)).  Text is kept; a
\* variable gives its value, and the empty string when the context has none.
Rendered(tokens, variables) ==
    [i \in DOMAIN tokens |->
        IF tokens[i] = "var"
        THEN (IF variables = WithVariables THEN "value" ELSE "")
        ELSE tokens[i]]

\* lines 169-212: the response to a render request on the table rs.
RenderResponse(rs, code, variables, language) ==
    IF MissingCode(code)
    THEN Response("render", 400, "missing_code", 0)
    ELSE LET template ==
                ActiveLatest(rs, code, IF language = Omitted THEN "en" ELSE language)
         IN  IF template = NoRow
             THEN Response("render", 404, "not_found", 0)
             ELSE IF Depth(template.content, 0) # 0
             THEN Response("render", 500, "render_error", 0)
             ELSE [Response("render", 200, "none", 0) EXCEPT
                    !.data = [code |-> template.code,
                              subject |-> template.subject,
                              content |-> Rendered(template.content, variables),
                              version |-> template.version,
                              language |-> template.language]]

RenderPost(code, variables, language) ==
    /\ resp' = [RenderResponse(templates, code, variables, language) EXCEPT
                    !.request = [code |-> code, variables |-> variables,
                                 language |-> language]]
    /\ UNCHANGED <<templates, next_id, pc, req, local, alone, assigned>>

\* A body without id, version or is_active, and bodies that give them.
NoVersioning == [given |-> FALSE, id |-> 0, version |-> 0, is_active |-> FALSE]
Versionings ==
    {NoVersioning} \cup
        [given : {TRUE}, id : {MaxCreates + 1}, version : {MaxCreates + 1},
         is_active : BOOLEAN]

\* The bodies of the requests that run beside one another: every key given,
\* one subject.
CreateData ==
    [code : Codes, language : Languages, content : Contents,
     subject : {GoodSubject}, versioning : {NoVersioning}]

\* The bodies of creates and direct updates served one at a time: with or
\* without the read-only keys.
AdminData ==
    [code : Codes, language : Languages, content : Contents,
     subject : {GoodSubject}, versioning : Versionings]

\* The bodies of creates served one at a time: with or without a language,
\* with a subject that parses or one that does not.
ApiData ==
    [code : Codes, language : Languages \cup {Omitted}, content : Contents,
     subject : Subjects, versioning : {NoVersioning}]

\* What a response is kept with: whether the body had a language, and
\* whether it had the read-only keys.
Keys(data) == [language |-> data.language, versioning |-> data.versioning.given]

Next ==
    \/ \E p \in Creators, data \in CreateData : Create(p, data)
    \/ \E p \in Creators : PerformCreateSave(p)
    \/ \E p \in Creators : PerformCreateDeactivate(p)
    \/ \E p \in Creators : PerformCreateFault(p)
    \/ \E p \in Editors, pk \in 1..MaxIds, data \in CreateData : Update(p, pk, data)
    \/ \E p \in Editors : PerformUpdate(p)
    \/ \E pk \in 1..MaxIds : Destroy(pk)
    \/ \E code \in Codes, language \in Languages : VersionList(code, language)

Spec == Init /\ [][Next]_vars

(***************************************************************************)
(* Creates only, still statement by statement: the requests the version   *)
(* manager serves, with no direct update, delete or store fault.          *)
(***************************************************************************)
NextCreates ==
    \/ \E p \in Creators, data \in CreateData : Create(p, data)
    \/ \E p \in Creators : PerformCreateSave(p)
    \/ \E p \in Creators : PerformCreateDeactivate(p)

SpecCreates == Init /\ [][NextCreates]_vars

(***************************************************************************)
(* Creates served one at a time: each request runs its three statements   *)
(* before the next one starts.                                             *)
(***************************************************************************)
CreateWhole(data) ==
    /\ IF ~validate_content(data.content)
       THEN /\ resp' = [Response("create", 400, "validation", 0)
                            EXCEPT !.request = Keys(data)]
            /\ UNCHANGED <<templates, next_id, assigned>>
       ELSE LET language == get_language(data)
                latest == Latest(templates, data.code, language)
                next_version == NextVersion(latest)
                row == NewRow(next_id, data, next_version)
            IN  /\ next_id <= MaxCreates
                /\ IF InsertOk(templates, row)
                   THEN /\ templates' =
                           DeactivateOthers(Insert(templates, row), data.code,
                                            language, next_version)
                        /\ next_id' = next_id + 1
                        /\ assigned' = Assign(assigned,
                                              Group(row.code, row.language),
                                              row.version)
                        /\ resp' = [Response("create", 201, "none", 1)
                                        EXCEPT !.request = Keys(data)]
                   ELSE /\ resp' = [Response("create", 500, "integrity", 1)
                                        EXCEPT !.request = Keys(data)]
                        /\ UNCHANGED <<templates, next_id, assigned>>
    /\ UNCHANGED <<pc, req, local, alone>>

NextSeq == \E data \in CreateData : CreateWhole(data)

SpecSeq == Init /\ [][NextSeq]_vars

(***************************************************************************)
(* The reads beside concurrent creates: render and list-versions see the  *)
(* table between any two statements of the creates.                        *)
(***************************************************************************)
NextReads ==
    \/ \E p \in Creators, data \in CreateData : Create(p, data)
    \/ \E p \in Creators : PerformCreateSave(p)
    \/ \E p \in Creators : PerformCreateDeactivate(p)
    \/ \E code \in Codes \cup {Omitted}, variables \in Variables,
          language \in Languages \cup {Omitted} :
            RenderPost(code, variables, language)
    \/ \E code \in Codes, language \in Languages \cup {Omitted} :
            VersionList(code, language)

SpecReads == Init /\ [][NextReads]_vars

(***************************************************************************)
(* The public operations served one at a time, with every body a client   *)
(* may send: a direct update runs get_object(), is_valid() and save()      *)
(* before the next request starts.                                         *)
(***************************************************************************)
UpdateWhole(pk, data) ==
    /\ \E r \in templates : r.id = pk
    /\ IF ~validate_content(data.content)
       THEN /\ resp' = [Response("update", 400, "validation", 0)
                            EXCEPT !.request = Keys(data)]
            /\ UNCHANGED templates
       ELSE LET instance == Row(templates, pk)
                row == Saved(instance, data)
                others == {r \in templates : r.id # row.id}
            IN  IF InsertOk(others, row)
                THEN /\ templates' = Insert(others, row)
                     /\ resp' = [Response("update", 200, "none", 1)
                                    EXCEPT !.request = Keys(data)]
                ELSE /\ resp' = [Response("update", 500, "integrity", 1)
                                    EXCEPT !.request = Keys(data)]
                     /\ UNCHANGED templates
    /\ UNCHANGED <<next_id, pc, req, local, alone, assigned>>

NextApi ==
    \/ \E data \in AdminData : next_id <= MaxApiIds /\ CreateWhole(data)
    \/ \E pk \in 1..MaxApiIds, data \in AdminData : UpdateWhole(pk, data)
    \/ \E pk \in 1..MaxApiIds : Destroy(pk)

SpecApi == Init /\ [][NextApi]_vars

(***************************************************************************)
(* Creates with every body a client may send, served one at a time, and   *)
(* the reads between them.                                                 *)
(***************************************************************************)
NextBodies ==
    \/ \E data \in ApiData : CreateWhole(data)
    \/ \E code \in Codes \cup {Omitted}, variables \in Variables,
          language \in Languages \cup {Omitted} :
            RenderPost(code, variables, language)
    \/ \E code \in Codes, language \in Languages \cup {Omitted} :
            VersionList(code, language)

SpecBodies == Init /\ [][NextBodies]_vars

(***************************************************************************)
(* Creates and administrative deletes served one at a time.                *)
(***************************************************************************)
NextHistory ==
    \/ \E data \in CreateData : CreateWhole(data)
    \/ \E pk \in 1..MaxCreates : Destroy(pk)

SpecHistory == Init /\ [][NextHistory]_vars

(***************************************************************************)
(* Creates and direct updates served one at a time, and the renders        *)
(* between them.                                                           *)
(***************************************************************************)
NextWrites ==
    \/ \E data \in CreateData : next_id <= MaxApiIds /\ CreateWhole(data)
    \/ \E pk \in 1..MaxApiIds, data \in CreateData : UpdateWhole(pk, data)
    \/ \E code \in Codes \cup {Omitted}, variables \in Variables,
          language \in Languages \cup {Omitted} :
            RenderPost(code, variables, language)

SpecWrites == Init /\ [][NextWrites]_vars

(***************************************************************************)
(* The claims.                                                             *)
(***************************************************************************)
GroupOf(r) == Group(r.code, r.language)
Groups == Codes \X Languages
RowsOf(rs, g) == Filter(rs, g[1], g[2])
InFlight(p) == pc[p] \in {"read", "saved"}

\* C1: creates of one group served one after another, from the empty group,
\* are assigned 1, 2, ..., N in creation order (primary keys are handed out
\* in creation order), and none of them fails.
C1_VersionsCountUp ==
    /\ \A r \in templates :
          r.version = Cardinality({s \in RowsOf(templates, GroupOf(r)) : s.id <= r.id})
    /\ resp.status # 500

C1_Witness ==
    \E g \in Groups :
        {r.version : r \in RowsOf(templates, g)} = {1, 2, 3}

\* C2: a create that completes with no other request on its group in between
\* leaves exactly one active row in the group: its own, which has the highest
\* version of the group.
C2_SoleActiveAfterCreate ==
    [][\A p \in Creators :
        (pc[p] = "saved" /\ pc'[p] = "idle" /\ resp'.status = 201 /\ alone[p])
        => LET g == Filter(templates', req[p].code, req[p].language)
           IN  /\ Actives(g) = {r \in g : r.id = local[p].id}
               /\ Cardinality(Actives(g)) = 1
               /\ \A r \in g : r.version <= local[p].next_version
               /\ \A r \in Actives(g) : r.version = local[p].next_version]_vars

C2_Witness ==
    /\ resp.op = "create" /\ resp.status = 201
    /\ \A p \in Procs : pc[p] = "idle"
    /\ \E g \in Groups :
          {<<r.version, r.is_active>> : r \in RowsOf(templates, g)}
            = {<<1, FALSE>>, <<2, TRUE>>}

\* C3: a versions listing read between the INSERT and the UPDATE of a create,
\* for a group that had an active row, shows exactly one active row.
C3_ReaderSeesOneActive ==
    (resp.op = "versions" /\ resp.window) => resp.actives = 1

\* C4: two creates of one group in flight together never hold the same
\* next_version.
C4_DistinctNextVersions ==
    \A p, q \in Creators :
        (/\ p # q /\ InFlight(p) /\ InFlight(q)
         /\ req[p].code = req[q].code /\ req[p].language = req[q].language)
        => local[p].next_version # local[q].next_version

\* C5: once every create has finished, each group that has rows has exactly
\* one active row, the one with the highest version.
C5_OneActiveWhenQuiet ==
    (\A p \in Creators : pc[p] = "idle")
    => \A g \in Groups :
          RowsOf(templates, g) # {}
          => Actives(RowsOf(templates, g)) = {Latest(templates, g[1], g[2])}

\* C6: no two rows share (code, language, version), and a write the store
\* rejects for it leaves the table as it was.
C6_UniqueTriple ==
    /\ [](\A r, s \in templates :
            (r.code = s.code /\ r.language = s.language /\ r.version = s.version)
            => r = s)
    /\ [][\A p \in Procs :
            (pc[p] # "idle" /\ pc'[p] = "idle" /\ resp'.error = "integrity")
            => templates' = templates]_vars

C6_Witness ==
    /\ resp.error = "integrity"
    /\ \E r, s \in templates : r # s /\ r.code = s.code /\ r.version = s.version

\* C7: a create answers with the store's integrity error only after it has
\* tried its insert again at least once.
C7_ErrorOnlyAfterRetry ==
    (resp.op = "create" /\ resp.error = "integrity") => resp.attempts >= 2

\* C8: a create that fails after its INSERT leaves no row of its own in the
\* table.
C8_FailedCreateLeavesNoRow ==
    [][\A p \in Creators :
        (pc[p] = "saved" /\ pc'[p] = "idle" /\ resp'.error = "fault")
        => ~\E r \in templates' : r.id = local[p].id]_vars

\* C9: a step of a create changes no row outside the create's group, and a
\* create that no request on its own group disturbs is assigned the version
\* after the group's highest and has its INSERT accepted, whatever requests
\* on other groups run beside it.
C9_GroupsIndependent ==
    /\ [][\A p \in Creators :
            pc'[p] # pc[p]
            => LET q == IF pc[p] = "idle" THEN req'[p] ELSE req[p]
               IN  {r \in templates' : GroupOf(r) # Group(q.code, q.language)}
                   = {r \in templates : GroupOf(r) # Group(q.code, q.language)}]_vars
    /\ [](\A p \in Creators :
            (pc[p] = "read" /\ alone[p])
            => LET g == RowsOf(templates, Group(req[p].code, req[p].language))
               IN  /\ \A r \in g : r.version < local[p].next_version
                   /\ g # {} => \E r \in g : r.version + 1 = local[p].next_version
                   /\ g = {} => local[p].next_version = 1)

C9_Witness ==
    \E p, q \in Creators :
        /\ pc[p] = "saved" /\ pc[q] = "saved" /\ alone[p] /\ alone[q]
        /\ req[p].code = req[q].code /\ req[p].language # req[q].language
        /\ \E r, s \in Actives(templates) : r.language # s.language

\* C10: a create whose content does not parse is answered 400 and changes
\* nothing: no row is added or altered, and no request with such content is
\* ever past validation or stored.
C10_InvalidContentRejected ==
    /\ [][(\E p \in Creators, data \in CreateData :
                data.content = BadContent /\ Create(p, data))
           => /\ templates' = templates
              /\ pc' = pc
              /\ resp'.op = "create" /\ resp'.status = 400]_vars
    /\ [](/\ \A r \in templates : r.content # BadContent
          /\ \A p \in Creators : pc[p] # "idle" => req[p].content # BadContent)

C10_Witness ==
    /\ resp.op = "create" /\ resp.status = 400
    /\ templates # {}


\* C11: a create whose subject does not parse is answered 400 and persists
\* nothing, whether or not its content parses: no step of such a create
\* changes the table, and no stored row has such a subject.
C11_InvalidSubjectRejected ==
    /\ [][(\E data \in ApiData : data.subject = BadSubject /\ CreateWhole(data))
           => /\ templates' = templates
              /\ resp'.op = "create" /\ resp'.status = 400]_vars
    /\ [](\A r \in templates : r.subject # BadSubject)

\* The rows a render or a listing of (code, language) is about.
Matching(code, language) ==
    {t \in templates : t.code = code /\ t.language = language}

C13_SubjectRendered ==
    [][\A code \in Codes, variables \in Variables, language \in Languages :
        (RenderPost(code, variables, language) /\ resp'.status = 200)
        => \E t \in Matching(code, language) :
              /\ t.version = resp'.data.version
              /\ resp'.data.content = Rendered(t.content, variables)
              /\ resp'.data.subject = Rendered(t.subject, variables)]_vars

\* C14: a render without code is answered 400 (missing_code), whatever the
\* table holds and whatever language and variables come with it, and leaves
\* the table as it was.
C14_MissingCodeIs400 ==
    [][\A variables \in Variables, language \in Languages \cup {Omitted} :
        RenderPost(Omitted, variables, language)
        => /\ resp'.status = 400 /\ resp'.error = "missing_code"
           /\ templates' = templates]_vars

\* A render without code answered 400 on the empty table.
C14_Witness ==
    /\ resp.op = "render" /\ resp.request.code = Omitted
    /\ resp.status = 400
    /\ templates = {}

\* C15: a listing of (code, language) is answered 200 with exactly the rows of
\* that code and language, active or not, each once, by version strictly
\* descending; with no such row the sequence is empty; the table is left as
\* it was.
C15_ListsGroupDescending ==
    [][\A code \in Codes, language \in Languages :
        VersionList(code, language)
        => LET data == resp'.data
           IN  /\ resp'.status = 200
               /\ {data[i] : i \in DOMAIN data} = Matching(code, language)
               /\ Len(data) = Cardinality(Matching(code, language))
               /\ \A i, j \in DOMAIN data :
                    i < j => data[i].version > data[j].version
               /\ templates' = templates]_vars

\* A listing that returned an active and an inactive row of one pair.
C15_Witness ==
    /\ resp.op = "versions" /\ resp.status = 200
    /\ Len(resp.data) = 2
    /\ \E i, j \in DOMAIN resp.data :
          resp.data[i].is_active /\ ~resp.data[j].is_active

\* C16: whatever creates, direct updates and deletes have been served, no
\* (code, language) pair has more than one active row.
C16_AtMostOneActive ==
    \A g \in Groups : Cardinality(Actives(RowsOf(templates, g))) <= 1

\* The version after the highest of the rows rs, 1 when there is none.
MaxPlusOne(rs) ==
    IF rs = {} THEN 1
    ELSE 1 + CHOOSE v \in {r.version : r \in rs} :
                \A r \in rs : r.version <= v

\* C17: the id, version and is_active of a request body never reach the
\* table: a create answered 201 adds one row, under the next primary key,
\* active and with the version after the highest of its pair; a direct
\* update leaves the set of primary keys and the version and is_active of
\* every row as they were.
C17_VersioningFieldsServerSide ==
    [][/\ (resp'.op = "create" /\ resp'.status = 201)
          => /\ {r.id : r \in templates'} = {r.id : r \in templates} \cup {next_id}
             /\ \A r \in templates' :
                  r.id = next_id
                  => /\ r.is_active
                     /\ r.version = MaxPlusOne(Matching(r.code, r.language))
       /\ resp'.op = "update"
          => /\ {r.id : r \in templates'} = {r.id : r \in templates}
             /\ \A r \in templates, t \in templates' :
                  r.id = t.id
                  => r.version = t.version /\ r.is_active = t.is_active]_vars

\* A direct update whose body gave id, version and is_active was answered
\* 200, and the table holds an active and an inactive row.
C17_Witness ==
    /\ resp.op = "update" /\ resp.status = 200
    /\ resp.request.versioning
    /\ \E r, t \in templates : r.is_active /\ ~t.is_active

\* C18: a create is given a version above every version a create of its pair
\* was given before, the versions of rows deleted since included.
C18_VersionsNeverReused ==
    [][\A data \in CreateData :
        (CreateWhole(data) /\ resp'.status = 201)
        => \A r \in templates' :
              r.id = next_id => r.version > assigned[GroupOf(r)]]_vars

\* C19: a request without language does what the same request with language
\* "en" does: the create reads, inserts into and deactivates within
\* (code, "en"), and render and list-versions give the response of "en".
C19_OmittedLanguageIsEn ==
    [][resp'.request.language = Omitted
       => /\ (resp'.op = "create" /\ resp'.status = 201)
             => \E r \in templates' :
                  LET en == Matching(r.code, "en")
                  IN  /\ r = Template(next_id, r.code, "en", MaxPlusOne(en),
                                      TRUE, r.content, r.subject)
                      /\ templates' = {r} \cup
                            {IF t \in en THEN [t EXCEPT !.is_active = FALSE] ELSE t :
                                t \in templates}
          /\ (resp'.op = "render" /\ resp'.request.code \in Codes)
             => LET en == RenderResponse(templates, resp'.request.code,
                                         resp'.request.variables, "en")
                IN  /\ resp'.status = en.status /\ resp'.error = en.error
                    /\ resp'.data = en.data
          /\ resp'.op = "versions"
             => resp'.data =
                    OrderByVersionDesc(Matching(resp'.request.code, "en"))]_vars

\* A create without language was answered 201 after rows of both languages
\* of one code were there, and left the "pt" row active.
C19_Witness ==
    /\ resp.op = "create" /\ resp.status = 201
    /\ resp.request.language = Omitted
    /\ \E r, t, u \in templates :
          /\ r.code = t.code /\ t.code = u.code
          /\ r.language = "en" /\ r.version = 2 /\ r.is_active
          /\ t.language = "en" /\ t.version = 1 /\ ~t.is_active
          /\ u.language = "pt" /\ u.is_active

\* C20: a render of a pair that has active rows returns the highest version
\* among the active rows of the pair, however many are active and whatever
\* the inactive rows are.
C20_ServesHighestActive ==
    [][\A code \in Codes, variables \in Variables, language \in Languages :
        (RenderPost(code, variables, language)
            /\ Actives(Matching(code, language)) # {})
        => /\ resp'.status = 200
           /\ \A t \in Actives(Matching(code, language)) :
                t.version <= resp'.data.version
           /\ \E t \in Actives(Matching(code, language)) :
                t.version = resp'.data.version]_vars

\* A render answered with version 2 for a pair with two active rows.
C20_Witness ==
    /\ resp.op = "render" /\ resp.status = 200
    /\ resp.request.language \in Languages
    /\ Cardinality(Actives(Matching(resp.request.code,
                                    resp.request.language))) = 2
    /\ resp.data.version = 2

=============================================================================
